---- MODULE Spec2Model ----
(***************************************************************************)
(* A model of tagex: TagCollector and TagExtractor (core/extractor.py),    *)
(* the ExtractorConfig validation (core/schemas.py) and the command-line   *)
(* entry point (cli.py).                                                   *)
(*                                                                         *)
(* Source text is a sequence of tokens.  One line of a file is some        *)
(* indentation tokens "s" (one "s" is two blanks), one content token and   *)
(* the newline "n".  The content tokens are                                *)
(*   "d"  a function header        def f():                                *)
(*   "c"  a class header           class C:                                *)
(*   "p"  a simple statement       pass                                    *)
(*   "t"  a simple statement whose line carries the word TODO:             *)
(*   "z"  a simple statement the parser accepts and the code generator     *)
(*        cannot write back (it exceeds the generator's recursion limit)   *)
(*   "x"  text that is no Python statement                                 *)
(***************************************************************************)
EXTENDS Integers, Sequences, FiniteSets, TLC

\* ------------------------------------------------------------------ bounds
\* the largest number of statements of a generated source file
MaxNodes == 3
\* the largest number of statements of a file of a generated directory
MaxDirNodes == 1
\* the number of TagExtractor.extract() calls and TagExtractor objects of one session
MaxRuns == 2
\* the largest number of TaggedCode objects a caller of the schemas builds
MaxMatches == 3

\* ------------------------------------------------------------------- text
Spaces(k) == [i \in 1..k |-> "s"]

\* The text of one line: indentation, content, newline.
LineText(l) == Spaces(l.ind) \o <<l.tok, "n">>

RECURSIVE SourceText(_)
\* Path.read_text: the text of a file given as its lines.
SourceText(ls) == IF ls = <<>> THEN <<>> ELSE LineText(Head(ls)) \o SourceText(Tail(ls))

\* Python's `tag in code`: literal, case-sensitive substring test.
Contains(text, tag) ==
    \E i \in 0..(Len(text) - Len(tag)) : SubSeq(text, i + 1, i + Len(tag)) = tag

\* ----------------------------------------------------------------- parser
\* libcst's Module.default_indent for a module built by cst.Module([node]): four blanks.
DefaultIndentText == <<"s", "s">>

StmtToks == {"p", "t", "z"}
DeclToks == {"d", "c"}

ParseFail == [ok |-> FALSE, nodes |-> <<>>, next |-> 0]

\* libcst's detection of the file's own indentation: the first indent of the file.
RECURSIVE DetectIndent(_, _)
DetectIndent(ls, i) ==
    IF i > Len(ls) THEN Len(DefaultIndentText)
    ELSE IF ls[i].ind > 0 THEN ls[i].ind
    ELSE DetectIndent(ls, i + 1)

RECURSIVE ParseBlock(_, _, _, _)
\* The statements at indentation `ind` from line i on, up to the first line indented
\* less or the end of file.  A node keeps its line, and its body's indentation
\* relative to its own (0 when that is the file's default indentation, libcst's
\* IndentedBlock.indent = None).
ParseBlock(ls, i, ind, dflt) ==
    IF i > Len(ls) \/ ls[i].ind < ind THEN [ok |-> TRUE, nodes |-> <<>>, next |-> i]
    ELSE IF ls[i].ind > ind THEN ParseFail
    ELSE IF ls[i].tok \in StmtToks THEN
        LET r == ParseBlock(ls, i + 1, ind, dflt)
        IN  IF r.ok
            THEN [ok |-> TRUE,
                  nodes |-> <<[kind |-> ls[i].tok, line |-> i, indent |-> 0,
                               body |-> <<>>]>> \o r.nodes,
                  next |-> r.next]
            ELSE ParseFail
    ELSE IF ls[i].tok \in DeclToks THEN
        IF i + 1 > Len(ls) \/ ls[i + 1].ind <= ind THEN ParseFail
        ELSE LET rel == ls[i + 1].ind - ind
                 b == ParseBlock(ls, i + 1, ls[i + 1].ind, dflt)
             IN  IF ~b.ok THEN ParseFail
                 ELSE LET r == ParseBlock(ls, b.next, ind, dflt)
                      IN  IF r.ok
                          THEN [ok |-> TRUE,
                                nodes |-> <<[kind |-> ls[i].tok, line |-> i,
                                             indent |-> IF rel = dflt THEN 0 ELSE rel,
                                             body |-> b.nodes]>> \o r.nodes,
                                next |-> r.next]
                          ELSE ParseFail
    ELSE ParseFail

\* cst.parse_module: the module's statements, or a ParserSyntaxError (ok = FALSE).
ParseModule(ls) ==
    LET r == ParseBlock(ls, 1, 0, DetectIndent(ls, 1))
    IN  IF r.ok /\ r.next = Len(ls) + 1 THEN [ok |-> TRUE, body |-> r.nodes]
        ELSE [ok |-> FALSE, body |-> <<>>]

\* ------------------------------------------------------------ code generator
RECURSIVE RenderStmt(_, _)
RECURSIVE RenderBlock(_, _)
\* The text of a statement written at indentation cur; a body whose indentation is
\* the default is written with the indentation of the module that is being written.
RenderStmt(n, cur) ==
    Spaces(cur) \o <<n.kind, "n">> \o
    (IF n.kind \in DeclToks
     THEN RenderBlock(n.body,
                      cur + (IF n.indent = 0 THEN Len(DefaultIndentText) ELSE n.indent))
     ELSE <<>>)

RenderBlock(ns, cur) ==
    IF ns = <<>> THEN <<>> ELSE RenderStmt(Head(ns), cur) \o RenderBlock(Tail(ns), cur)

\* cst.Module([node]).code: the node written as the only statement of a fresh module.
ModuleCode(node) == RenderStmt(node, 0)

RECURSIVE Renderable(_)
\* Whether the code generator can write the node back.
Renderable(n) ==
    /\ n.kind # "z"
    /\ \A k \in 1..Len(n.body) : Renderable(n.body[k])

\* -------------------------------------------------------------- TagCollector
\* TagCollector.__init__: the collector's fields; raised is set when a visit raised,
\* positions when a MetadataWrapper has resolved the nodes' positions for it.
NewCollector(tag, include_functions, include_classes) ==
    [tag |-> tag, include_functions |-> include_functions,
     include_classes |-> include_classes, results |-> <<>>, raised |-> FALSE,
     positions |-> FALSE]

\* The line _check_node takes for a node: position.start.line, or 1 when
\* get_metadata raises KeyError because no position is resolved.
PositionLine(node, col) == IF col.positions THEN node.line ELSE 1

\* The NodeCollectionResult appended by _check_node.
NodeCollectionResult(node, line_number, code, node_type) ==
    [name |-> <<node.kind, node.line>>, line_number |-> line_number, code |-> code,
     node_type |-> node_type]

\* A _check_node that appends without the substring test.
CheckNodeNoTest(node, node_type, col) ==
    IF ~Renderable(node) THEN [col EXCEPT !.raised = TRUE]
    ELSE [col EXCEPT !.results =
              Append(@, NodeCollectionResult(node, PositionLine(node, col),
                                             ModuleCode(node), node_type))]

RECURSIVE HasDeclWith(_, _)
\* Whether a declaration in the statement list ns, nested ones included, has a
\* rendered text that holds the tag.
HasDeclWith(ns, tag) ==
    \E k \in 1..Len(ns) :
        \/ ns[k].kind \in {"d", "c"} /\ Contains(RenderStmt(ns[k], 0), tag)
        \/ HasDeclWith(ns[k].body, tag)

\* A _check_node that keeps only the innermost declaration that holds the tag.
CheckNodeInnermost(node, node_type, col) ==
    IF ~Renderable(node) THEN [col EXCEPT !.raised = TRUE]
    ELSE LET code == ModuleCode(node)
         IN  IF ~Contains(code, col.tag) \/ HasDeclWith(node.body, col.tag) THEN col
             ELSE [col EXCEPT !.results =
                       Append(@, NodeCollectionResult(node, PositionLine(node, col),
                                                      code, node_type))]

\* TagCollector._check_node: render the node, keep it when its text holds the tag.
\* A node the generator cannot write makes the call raise.
CheckNode(node, node_type, col) ==
    IF ~Renderable(node) THEN [col EXCEPT !.raised = TRUE]
    ELSE LET code == ModuleCode(node)
         IN  IF ~Contains(code, col.tag) THEN col
             ELSE [col EXCEPT !.results =
                       Append(@, NodeCollectionResult(node, PositionLine(node, col),
                                                      code, node_type))]

\* A visit_FunctionDef that does not look at include_functions.
VisitFunctionDefAlways(node, col) == CheckNode(node, "function", col)

\* TagCollector.visit_FunctionDef
VisitFunctionDef(node, col) ==
    IF col.include_functions THEN CheckNode(node, "function", col) ELSE col

\* A visit_ClassDef that does not look at include_classes.
VisitClassDefAlways(node, col) == CheckNode(node, "class", col)

\* TagCollector.visit_ClassDef
VisitClassDef(node, col) ==
    IF col.include_classes THEN CheckNode(node, "class", col) ELSE col

\* The visitor callback libcst dispatches to for a node.
VisitCallback(node, col) ==
    CASE node.kind = "d" -> VisitFunctionDef(node, col)
      [] node.kind = "c" -> VisitClassDef(node, col)
      [] OTHER -> col

RECURSIVE VisitNode(_, _)
RECURSIVE VisitAll(_, _)

\* A traversal that calls the callback of a node after those of its children.
VisitNodePostOrder(node, col) ==
    IF col.raised THEN col ELSE VisitCallback(node, VisitAll(node.body, col))

\* A traversal that does not descend into a declaration's body.
VisitNodeShallow(node, col) ==
    IF col.raised THEN col ELSE VisitCallback(node, col)

\* libcst's traversal of one node: the callback, then (the callbacks return None)
\* the node's children in source order; an exception ends the traversal.
VisitNode(node, col) ==
    IF col.raised THEN col ELSE VisitAll(node.body, VisitCallback(node, col))

VisitAll(ns, col) ==
    IF ns = <<>> \/ col.raised THEN col
    ELSE VisitAll(Tail(ns), VisitNode(Head(ns), col))

\* wrapper.visit(collector) on a parsed module: the wrapper resolves the positions
\* the collector depends on, then the module is traversed.
WrapperVisit(body, col) == VisitAll(body, [col EXCEPT !.positions = TRUE])

\* module.visit(collector): the traversal without a MetadataWrapper.
ModuleVisit(body, col) == VisitAll(body, col)

\* ------------------------------------------------------------------- paths
\* Path.relative_to: the path below base, or a ValueError (ok = FALSE).
RelativeTo(p, base) ==
    IF Len(base) <= Len(p) /\ SubSeq(p, 1, Len(base)) = base
    THEN [ok |-> TRUE, path |-> SubSeq(p, Len(base) + 1, Len(p))]
    ELSE [ok |-> FALSE, path |-> p]

\* A file or directory name: stem and suffix ("a.py" is stem "a", suffix ".py").
Name(stem, suffix) == [stem |-> stem, suffix |-> suffix]

\* The order of the names that occur, as Python compares the strings.
NameOrder == <<Name("a", ".py"), Name("b", ".py"), Name("missing", ""),
               Name("notes", ".txt"), Name("proj", ""), Name("sub", "")>>

NameRank(nm) == CHOOSE k \in 1..Len(NameOrder) : NameOrder[k] = nm

RECURSIVE PathLeq(_, _)
\* Path.__le__: the paths' parts compared in order.
PathLeq(p, q) ==
    IF p = <<>> THEN TRUE
    ELSE IF q = <<>> THEN FALSE
    ELSE IF NameRank(Head(p)) < NameRank(Head(q)) THEN TRUE
    ELSE IF NameRank(Head(p)) > NameRank(Head(q)) THEN FALSE
    ELSE PathLeq(Tail(p), Tail(q))

RECURSIVE Sorted(_)
\* sorted(...) of a set of paths.
Sorted(S) ==
    IF S = {} THEN <<>>
    ELSE LET m == CHOOSE x \in S : \A y \in S : PathLeq(x, y)
         IN  <<m>> \o Sorted(S \ {m})

Proj == <<Name("proj", "")>>
FileA == Proj \o <<Name("a", ".py")>>
FileB == Proj \o <<Name("sub", ""), Name("b", ".py")>>
Notes == Proj \o <<Name("notes", ".txt")>>
Missing == <<Name("missing", "")>>

\* ------------------------------------------------------------ source files
Line(ind, tok) == [ind |-> ind, tok |-> tok]

\* A file's content: its lines, or bytes that are no UTF-8 text.
Text(ls) == [decodable |-> TRUE, lines |-> ls]
Undecodable == [decodable |-> FALSE, lines |-> <<>>]

RECURSIVE TreesOfSize(_)
RECURSIVE ForestsOfSize(_)
\* The statements with k nodes: a simple statement, or a declaration and its body.
TreesOfSize(k) ==
    IF k = 1 THEN {[kind |-> tok, body |-> <<>>] : tok \in {"p", "t"}}
    ELSE {[kind |-> tok, body |-> b] : tok \in DeclToks, b \in ForestsOfSize(k - 1)}

\* The statement lists with n nodes in all.
ForestsOfSize(n) ==
    IF n = 0 THEN {<<>>}
    ELSE UNION {{<<t>> \o f : t \in TreesOfSize(k), f \in ForestsOfSize(n - k)} :
                k \in 1..n}

RECURSIVE WriteStmt(_, _, _)
RECURSIVE WriteBlock(_, _, _)
\* The lines of a statement written at indentation ind, bodies indented by unit.
WriteStmt(t, ind, unit) == <<Line(ind, t.kind)>> \o WriteBlock(t.body, ind + unit, unit)

WriteBlock(f, ind, unit) ==
    IF f = <<>> THEN <<>> ELSE WriteStmt(Head(f), ind, unit) \o WriteBlock(Tail(f), ind, unit)

\* The well-formed files of at most n statements, indented by one of the units
\* (1: two blanks, 2: four blanks).
WellFormed(n, units) ==
    {Text(WriteBlock(f, 0, unit)) : f \in UNION {ForestsOfSize(k) : k \in 0..n},
                                    unit \in units}

\* Files beside the generated ones: a tagged function indented by four and by two
\* blanks, a tagged function beside an untagged and beside a tagged class, malformed
\* text with and
\* without the word, a function the generator cannot write back, mixed
\* indentation, undecodable bytes.
OtherFiles ==
    {Text(<<Line(0, "d"), Line(2, "t")>>),
     Text(<<Line(0, "x")>>),
     Text(<<Line(0, "d"), Line(1, "t")>>),
     Text(<<Line(0, "d"), Line(2, "t"), Line(0, "c"), Line(2, "p")>>),
     Text(<<Line(0, "d"), Line(2, "t"), Line(0, "c"), Line(2, "t")>>),
     Text(<<Line(0, "d")>>),
     Text(<<Line(0, "d"), Line(2, "t"), Line(0, "x")>>),
     Text(<<Line(0, "p"), Line(2, "t")>>),
     Text(<<Line(0, "d"), Line(2, "z"), Line(2, "t")>>),
     Text(<<Line(0, "c"), Line(1, "d"), Line(3, "t")>>),
     Undecodable}

AllFiles == WellFormed(MaxNodes, {1, 2}) \cup OtherFiles
DirFiles == WellFormed(MaxDirNodes, {2}) \cup OtherFiles

\* The words searched for: the word itself, the word after four blanks, and a text
\* of two lines (a function header and the word on the next line, after four blanks).
Tags == {<<"t">>, <<"s", "s", "t">>, <<"d", "n", "s", "s", "t">>}

\* ---------------------------------------------------------- ExtractorConfig
IsFile(p, files) == p \in DOMAIN files
IsDir(p, files) == \E f \in DOMAIN files : Len(p) < Len(f) /\ SubSeq(f, 1, Len(p)) = p
Exists(p, files) == IsFile(p, files) \/ IsDir(p, files)

\* A validation that accepts any tag.
ValidTagAny(tag) == TRUE

\* Field(..., min_length=1) of ExtractorConfig.tag
ValidTag(tag) == Len(tag) >= 1

\* ExtractorConfig.validate_target_path: the path exists, and a file is a .py file.
ValidTargetPath(p, files) ==
    /\ Exists(p, files)
    /\ ~(IsFile(p, files) /\ p[Len(p)].suffix # ".py")

\* ExtractorConfig(...): the configuration object; file_pattern is the default "*.py".
ExtractorConfig(tag, target_path, include_functions, include_classes) ==
    [tag |-> tag, target_path |-> target_path, include_functions |-> include_functions,
     include_classes |-> include_classes, file_pattern |-> ".py"]

NoConfig == [none |-> TRUE]

\* ExtractorConfig.is_single_file
IsSingleFile(config, files) == IsFile(config.target_path, files)

\* A base_path that is the target path in both modes.
BasePathTarget(config, files) == config.target_path

\* ExtractorConfig.base_path
BasePath(config, files) ==
    IF IsSingleFile(config, files)
    THEN SubSeq(config.target_path, 1, Len(config.target_path) - 1)
    ELSE config.target_path

\* ------------------------------------------------------------- TagExtractor
\* A _get_python_files that takes every file under the directory.
GetPythonFilesAnySuffix(config, files) ==
    IF IsSingleFile(config, files) THEN <<config.target_path>>
    ELSE Sorted({f \in DOMAIN files :
                    /\ Len(config.target_path) < Len(f)
                    /\ SubSeq(f, 1, Len(config.target_path)) = config.target_path})

\* TagExtractor._get_python_files
GetPythonFiles(config, files) ==
    IF IsSingleFile(config, files) THEN <<config.target_path>>
    ELSE Sorted({f \in DOMAIN files :
                    /\ Len(config.target_path) < Len(f)
                    /\ SubSeq(f, 1, Len(config.target_path)) = config.target_path
                    /\ f[Len(f)].suffix = config.file_pattern})

\* A line_number field that takes any integer.
LineNumberAny(v) == TRUE

\* Field(..., ge=1) of TaggedCode.line_number
LineNumberValid(v) == v >= 1

\* A validate_node_type that takes any string.
ValidateNodeTypeAny(v) == TRUE

\* TaggedCode.validate_node_type
ValidateNodeType(v) == v \in {"function", "class"}

\* Whether TaggedCode(...) with these field values passes validation.
ValidTaggedCode(fields) ==
    LineNumberValid(fields.line_number) /\ ValidateNodeType(fields.node_type)

\* The TaggedCode built from a collector result.
TaggedCode(file_path, r) ==
    [file_path |-> file_path, name |-> r.name, line_number |-> r.line_number,
     code |-> r.code, node_type |-> r.node_type]

RECURSIVE TaggedCodes(_, _)
TaggedCodes(file_path, rs) ==
    IF rs = <<>> THEN <<>>
    ELSE <<TaggedCode(file_path, Head(rs))>> \o TaggedCodes(file_path, Tail(rs))

NoCollector == [none |-> TRUE]

\* What one _process_file call leaves: the extractor's fields, whether it raised,
\* whether cst.parse_module was called, and the collector it built (NoCollector
\* when it built none).
Outcome(self, raised, parsed, collected) ==
    [self |-> self, raised |-> raised, parsed |-> parsed, collected |-> collected]

\* A pre-filter branch that does not count the file.
MarkerAbsentNoCount(self) == Outcome(self, FALSE, FALSE, NoCollector)

\* _process_file when the tag is not in the file's text: count the file, return.
MarkerAbsent(self) ==
    Outcome([self EXCEPT !.processed_files = @ + 1], FALSE, FALSE, NoCollector)

\* A _process_file that puts the file's matches in the place of the ones before.
ParseAndCollectReplace(self, file_path, lines, files) ==
    LET module == ParseModule(lines)
        collector == WrapperVisit(module.body,
                                  NewCollector(self.config.tag,
                                               self.config.include_functions,
                                               self.config.include_classes))
        rel == RelativeTo(file_path, BasePath(self.config, files))
        relative_path == IF rel.ok THEN rel.path ELSE file_path
    IN  IF ~module.ok THEN Outcome(self, TRUE, TRUE, NoCollector)
        ELSE IF collector.raised THEN Outcome(self, TRUE, TRUE, collector)
        ELSE Outcome([self EXCEPT
                         !.results = TaggedCodes(relative_path, collector.results),
                         !.processed_files = @ + 1],
                     FALSE, TRUE, collector)

\* _process_file from cst.parse_module on: parse, visit, append the matches, count
\* the file.  A parser or generator exception leaves the fields as they were; a
\* TaggedCode that fails validation ends the call after the ones before it.
ParseAndCollect(self, file_path, lines, files) ==
    LET module == ParseModule(lines)
        collector == WrapperVisit(module.body,
                                  NewCollector(self.config.tag,
                                               self.config.include_functions,
                                               self.config.include_classes))
        rel == RelativeTo(file_path, BasePath(self.config, files))
        relative_path == IF rel.ok THEN rel.path ELSE file_path
    IN  IF ~module.ok THEN Outcome(self, TRUE, TRUE, NoCollector)
        ELSE IF collector.raised THEN Outcome(self, TRUE, TRUE, collector)
        ELSE LET built == TaggedCodes(relative_path, collector.results)
                 bad == {k \in 1..Len(built) : ~ValidTaggedCode(built[k])}
             IN  IF bad # {}
                 THEN LET first == CHOOSE k \in bad : \A j \in bad : k <= j
                      IN  Outcome([self EXCEPT
                                      !.results = @ \o SubSeq(built, 1, first - 1)],
                                  TRUE, TRUE, collector)
                 ELSE Outcome([self EXCEPT !.results = @ \o built,
                                           !.processed_files = @ + 1],
                              FALSE, TRUE, collector)

\* TagExtractor._process_file
ProcessFile(self, file_path, files) ==
    LET content == files[file_path]
        source_code == SourceText(content.lines)
    IN  IF ~content.decodable THEN Outcome(self, TRUE, FALSE, NoCollector)
        ELSE IF ~Contains(source_code, self.config.tag) THEN MarkerAbsent(self)
        ELSE ParseAndCollect(self, file_path, content.lines, files)

\* ExtractionResult(config=..., results=..., processed_files=..., skipped_files=...)
ExtractionResult(self) ==
    [config |-> self.config, results |-> self.results,
     processed_files |-> self.processed_files, skipped_files |-> self.skipped_files]

NoResult == [none |-> TRUE]

RECURSIVE GroupInto(_, _)
\* The loop of group_by_file: the dict so far, as its entries in insertion order.
GroupInto(items, grouped) ==
    IF items = <<>> THEN grouped
    ELSE LET item == Head(items)
             at == {k \in 1..Len(grouped) : grouped[k].key = item.file_path}
         IN  GroupInto(Tail(items),
                       IF at = {}
                       THEN Append(grouped, [key |-> item.file_path, items |-> <<item>>])
                       ELSE LET k == CHOOSE k \in at : TRUE
                            IN  [grouped EXCEPT ![k].items = Append(@, item)])

\* A group_by_file that keeps, for each file, the first of its matches.
GroupByFileFirst(result) ==
    LET g == GroupInto(result.results, <<>>)
    IN  [k \in 1..Len(g) |-> [key |-> g[k].key, items |-> <<g[k].items[1]>>]]

\* ExtractionResult.group_by_file
GroupByFile(result) == GroupInto(result.results, <<>>)

\* grouped.keys() and grouped[file_path]
Keys(grouped) == {grouped[k].key : k \in 1..Len(grouped)}
ItemsOf(grouped, key) ==
    grouped[CHOOSE k \in 1..Len(grouped) : grouped[k].key = key].items

\* ---------------------------------------------------------- OutputFormatter
RECURSIVE InsertByLine(_, _)
\* The sorted list with one more item, put after the items whose line_number is
\* not larger (sorted() is stable).
InsertByLine(sorted, item) ==
    IF sorted = <<>> THEN <<item>>
    ELSE IF Head(sorted).line_number <= item.line_number
         THEN <<Head(sorted)>> \o InsertByLine(Tail(sorted), item)
         ELSE <<item>> \o sorted

\* A list left in the order it has.
Unsorted(items) == items

RECURSIVE SortedByLine(_)
\* sorted(items, key=lambda x: x.line_number)
SortedByLine(items) ==
    IF items = <<>> THEN <<>>
    ELSE InsertByLine(SortedByLine(SubSeq(items, 1, Len(items) - 1)), items[Len(items)])

\* One line (or one block of lines) of a report: what it is and what it shows.
ReportLine(kind, val) == [kind |-> kind, val |-> val]

RECURSIVE MatchLines(_, _)
MatchLines(items, kind) ==
    IF items = <<>> THEN <<>>
    ELSE <<ReportLine(kind, Head(items))>> \o MatchLines(Tail(items), kind)

RECURSIVE GroupLines(_, _, _, _)
\* for file_path in sorted(grouped.keys()): the file's heading, then
\* for item in sorted(items, key=line_number): the item.
GroupLines(keys, grouped, file_kind, match_kind) ==
    IF keys = <<>> THEN <<>>
    ELSE <<ReportLine(file_kind, Head(keys))>>
         \o MatchLines(SortedByLine(ItemsOf(grouped, Head(keys))), match_kind)
         \o GroupLines(Tail(keys), grouped, file_kind, match_kind)

\* OutputFormatter.print_results (show_code=True): the tree, then the code panels.
PrintResults(result) ==
    IF Len(result.results) = 0 THEN <<ReportLine("tree_none", result.config.tag)>>
    ELSE LET grouped == GroupByFile(result)
         IN  <<ReportLine("tree_total", Len(result.results))>>
             \o GroupLines(Sorted(Keys(grouped)), grouped, "tree_file", "tree_match")
             \o GroupLines(Sorted(Keys(grouped)), grouped, "code_file", "code_match")

RECURSIVE SkippedLines(_)
SkippedLines(skipped) ==
    IF skipped = <<>> THEN <<>>
    ELSE <<ReportLine("md_skipped_file", Head(skipped))>> \o SkippedLines(Tail(skipped))

\* OutputFormatter._format_markdown
FormatMarkdown(result) ==
    <<ReportLine("md_tag", result.config.tag),
      ReportLine("md_total", Len(result.results))>>
    \o (IF result.skipped_files # <<>>
        THEN <<ReportLine("md_skipped", Len(result.skipped_files))>> ELSE <<>>)
    \o (IF Len(result.results) = 0
        THEN <<ReportLine("md_none", 0)>> \o SkippedLines(result.skipped_files)
        ELSE LET grouped == GroupByFile(result)
             IN  GroupLines(Sorted(Keys(grouped)), grouped, "md_file", "md_match"))

\* OutputFormatter._format_plain
FormatPlain(result) ==
    <<ReportLine("plain_tag", result.config.tag),
      ReportLine("plain_total", Len(result.results))>>
    \o (IF Len(result.results) = 0 THEN <<ReportLine("plain_none", 0)>>
        ELSE LET grouped == GroupByFile(result)
             IN  GroupLines(Sorted(Keys(grouped)), grouped, "plain_file", "plain_match"))

\* ------------------------------------------------ callers of the schemas
\* The relative paths, and the field values a caller gives TaggedCode(...): valid
\* ones on two files, two lines and both kinds, a line number 0, a kind "invalid".
RelA == <<Name("a", ".py")>>
RelB == <<Name("sub", ""), Name("b", ".py")>>

Fields(file_path, kind, line_number, node_type) ==
    [file_path |-> file_path, name |-> <<kind, line_number>>,
     line_number |-> line_number, code |-> <<kind, "n", "s", "s", "t", "n">>,
     node_type |-> node_type]

GivenFields ==
    {Fields(f, k[1], l, k[2]) :
        f \in {RelA, RelB}, l \in {1, 2}, k \in {<<"d", "function">>, <<"c", "class">>}}
    \cup {Fields(RelA, "d", 0, "function"), Fields(RelA, "d", 1, "invalid")}

GivenLists == UNION {[1..n -> GivenFields] : n \in 0..MaxMatches}

\* The skipped_files a caller gives ExtractionResult(...): none, or the diagnostics
\* of a file with a syntax error and of a file with an encoding error.
GivenSkipped == {<<>>, <<"test1.py: syntax error", "test2.py: encoding error">>}

\* -------------------------------------------------------------------- state
VARIABLES
    mode,             \* "cli": tagex extract (cli.main); "api": a caller of
                      \* TagExtractor; "schemas": a caller of the schemas and the
                      \* formatter; "visitor": a caller of TagCollector
    in_tag,           \* the tag given
    in_path,          \* the path given
    in_functions,     \* include_functions given
    in_classes,       \* include_classes given
    files,            \* the file system: path -> content
    pc,               \* where the session is
    exit_code,        \* the process's exit status, -1 while it runs
    config,           \* the ExtractorConfig, NoConfig before there is one
    extractors,       \* the number of TagExtractor objects built
    processed_files,  \* TagExtractor._processed_files of the current object
    skipped_files,    \* TagExtractor._skipped_files
    results,          \* TagExtractor._results
    py_files,         \* extract()'s py_files
    idx,              \* the position of extract()'s loop in py_files
    calls,            \* extract() calls made on the current object
    runs,             \* extract() calls made in the session
    ret,              \* the ExtractionResult the last extract() returned
    prev,             \* the ExtractionResult the extract() before it returned
    reads,            \* read_text calls made
    parses,           \* cst.parse_module calls made
    collector,        \* the last TagCollector: its file, its results, whether it raised
    given,            \* the field values a caller of the schemas gives TaggedCode(...)
    made,             \* the TaggedCode objects that caller built
    built,            \* the ExtractionResult that caller built from them
    grouped,          \* what group_by_file() returned, in insertion order
    report,           \* the last report written: its lines in order
    bare              \* a TagCollector taken through a module without a wrapper

vars == <<mode, in_tag, in_path, in_functions, in_classes, files, pc, exit_code,
          config, extractors, processed_files, skipped_files, results, py_files, idx,
          calls, runs, ret, prev, reads, parses, collector,
          given, made, built, grouped, report, bare>>

\* What a caller of the schemas, of the formatter or of the collector alone works on.
lib_vars == <<given, made, built, grouped, report, bare>>

\* What a TagExtractor run works on.
run_vars == <<exit_code, extractors, processed_files, skipped_files, results,
              py_files, idx, calls, runs, ret, prev, reads, parses, collector>>

inputs == <<mode, in_tag, in_path, in_functions, in_classes, files>>

\* The current TagExtractor object.
Self ==
    [config |-> config, processed_files |-> processed_files,
     skipped_files |-> skipped_files, results |-> results]

\* The file systems: proj/ holds notes.txt and the .py files given, the second one
\* in proj/sub/.
OneFile(content) == (FileA :> content) @@ (Notes :> Text(<<Line(0, "t")>>))
TwoFiles(a, b) == (FileA :> a) @@ (FileB :> b) @@ (Notes :> Text(<<Line(0, "t")>>))
NoFiles == (Notes :> Text(<<Line(0, "t")>>))

TaggedFunction == Text(<<Line(0, "d"), Line(2, "t")>>)

InitRest ==
    /\ exit_code = -1
    /\ extractors = 0
    /\ processed_files = 0
    /\ skipped_files = <<>>
    /\ results = <<>>
    /\ py_files = <<>>
    /\ idx = 0
    /\ calls = 0
    /\ runs = 0
    /\ ret = NoResult
    /\ prev = NoResult
    /\ reads = 0
    /\ parses = 0
    /\ collector = NoCollector
    /\ made = <<>>
    /\ built = NoResult
    /\ grouped = <<>>
    /\ report = <<>>
    /\ bare = NoCollector

\* One file given by its path.
InitSingle ==
    /\ in_path = FileA
    /\ in_tag \in Tags
    /\ \E content \in AllFiles : files = OneFile(content)

\* A directory of no, one or two .py files.
InitDirectory ==
    /\ in_path = Proj
    /\ in_tag \in Tags
    /\ \/ files = NoFiles
       \/ \E a \in DirFiles : files = OneFile(a)
       \/ \E a \in DirFiles, b \in DirFiles : files = TwoFiles(a, b)

\* Any path and any tag, the empty one too, over one file system.
InitAnyConfig ==
    /\ in_path \in {FileA, Proj, Notes, Missing}
    /\ in_tag \in Tags \cup {<<>>}
    /\ files = TwoFiles(TaggedFunction, TaggedFunction)

\* A run of the command (cli) or of the classes by a caller (api).
InitRun ==
    /\ mode \in {"cli", "api"}
    /\ in_functions \in BOOLEAN
    /\ in_classes \in BOOLEAN
    /\ InitSingle \/ InitDirectory \/ InitAnyConfig
    /\ pc = "start"
    /\ config = NoConfig
    /\ given = <<>>

\* A caller that builds TaggedCode objects and an ExtractionResult itself and has
\* them grouped and written, as the unit tests of schemas.py and formatter.py do.
InitSchemas ==
    /\ mode = "schemas"
    /\ in_functions = TRUE /\ in_classes = TRUE
    /\ in_tag = <<"t">>
    /\ in_path = Proj
    /\ files = TwoFiles(TaggedFunction, TaggedFunction)
    /\ pc = "lib_start"
    /\ config = ExtractorConfig(in_tag, in_path, in_functions, in_classes)
    /\ given \in GivenLists

\* A caller that takes a TagCollector through a parsed module itself.
InitVisitor ==
    /\ mode = "visitor"
    /\ in_functions \in BOOLEAN
    /\ in_classes \in BOOLEAN
    /\ in_tag \in Tags
    /\ in_path = FileA
    /\ \E content \in AllFiles :
          /\ content.decodable /\ ParseModule(content.lines).ok
          /\ files = OneFile(content)
    /\ pc = "lib_start"
    /\ config = ExtractorConfig(in_tag, in_path, in_functions, in_classes)
    /\ given = <<>>

Init ==
    /\ InitRun \/ InitSchemas \/ InitVisitor
    /\ InitRest

\* ------------------------------------------------------------------ actions
\* cli.extract's path argument, typer.Argument(exists=True): a path that does not
\* exist is a usage error, and the process exits with status 2.
TyperArgument ==
    /\ mode = "cli" /\ pc = "start"
    /\ IF Exists(in_path, files)
       THEN pc' = "checked" /\ exit_code' = exit_code
       ELSE pc' = "exited" /\ exit_code' = 2
    /\ UNCHANGED <<inputs, config, extractors, processed_files, skipped_files, results,
                   py_files, idx, calls, runs, ret, prev, reads, parses, collector>>
    /\ UNCHANGED lib_vars

\* ExtractorConfig(...) in cli.extract and cli.extract_tags: the object, or a
\* ValidationError.
ConstructConfig ==
    /\ pc = IF mode = "cli" THEN "checked" ELSE "start"
    /\ IF ValidTag(in_tag) /\ ValidTargetPath(in_path, files)
       THEN /\ config' = ExtractorConfig(in_tag, in_path, in_functions, in_classes)
            /\ pc' = "configured"
       ELSE /\ config' = config
            /\ pc' = "config_error"
    /\ UNCHANGED <<inputs, exit_code, extractors, processed_files, skipped_files,
                   results, py_files, idx, calls, runs, ret, prev, reads, parses,
                   collector>>
    /\ UNCHANGED lib_vars

\* TagExtractor(config=config): the first object, or (a caller of the classes)
\* another object on the same configuration after a run.
NewTagExtractor ==
    /\ \/ pc = "configured"
       \/ mode = "api" /\ pc = "returned" /\ runs < MaxRuns
    /\ extractors' = extractors + 1
    /\ processed_files' = 0
    /\ skipped_files' = <<>>
    /\ results' = <<>>
    /\ calls' = 0
    /\ pc' = "idle"
    /\ UNCHANGED <<inputs, exit_code, config, py_files, idx, runs, ret, prev, reads,
                   parses, collector>>
    /\ UNCHANGED lib_vars

\* extract() up to its loop: the files found; with none, the result at once.
Extract ==
    /\ \/ pc = "idle"
       \/ mode = "api" /\ pc = "returned" /\ runs < MaxRuns
    /\ py_files' = GetPythonFiles(config, files)
    /\ runs' = runs + 1
    /\ calls' = calls + 1
    /\ IF py_files' = <<>>
       THEN /\ pc' = "returned"
            /\ idx' = 0
            /\ prev' = ret
            /\ ret' = ExtractionResult(Self)
       ELSE /\ pc' = "running"
            /\ idx' = 1
            /\ UNCHANGED <<ret, prev>>
    /\ UNCHANGED <<inputs, exit_code, config, extractors, processed_files,
                   skipped_files, results, reads, parses, collector>>
    /\ UNCHANGED lib_vars

\* One turn of extract()'s loop: self._process_file(file_path).  An exception
\* leaves the loop and extract().
ProcessFileStep ==
    /\ pc = "running" /\ idx <= Len(py_files)
    /\ LET o == ProcessFile(Self, py_files[idx], files)
       IN  /\ reads' = reads + 1
           /\ parses' = IF o.parsed THEN parses + 1 ELSE parses
           /\ collector' = IF o.collected # NoCollector
                           THEN [file |-> py_files[idx],
                                 results |-> o.collected.results,
                                 raised |-> o.collected.raised]
                           ELSE collector
           /\ processed_files' = o.self.processed_files
           /\ skipped_files' = o.self.skipped_files
           /\ results' = o.self.results
           /\ IF o.raised
              THEN pc' = "raised" /\ idx' = idx
              ELSE pc' = "running" /\ idx' = idx + 1
    /\ UNCHANGED <<inputs, exit_code, config, extractors, py_files, calls, runs, ret,
                   prev>>
    /\ UNCHANGED lib_vars

\* extract() after its loop: the ExtractionResult.
ExtractReturn ==
    /\ pc = "running" /\ idx > Len(py_files)
    /\ prev' = ret
    /\ ret' = ExtractionResult(Self)
    /\ pc' = "returned"
    /\ UNCHANGED <<inputs, exit_code, config, extractors, processed_files,
                   skipped_files, results, py_files, idx, calls, runs, reads, parses,
                   collector>>
    /\ UNCHANGED lib_vars

\* cli.extract after extract(): the report is printed, the command returns and the
\* process exits with status 0.
CommandDone ==
    /\ mode = "cli" /\ pc = "returned"
    /\ report' = PrintResults(ret)
    /\ pc' = "exited"
    /\ exit_code' = 0
    /\ UNCHANGED <<given, made, built, grouped, bare>>
    /\ UNCHANGED <<inputs, config, extractors, processed_files, skipped_files, results,
                   py_files, idx, calls, runs, ret, prev, reads, parses, collector>>

\* cli.main's `except Exception`: the exception of the command is logged, main
\* returns and the process exits with status 0.
MainExcept ==
    /\ mode = "cli" /\ pc \in {"config_error", "raised"}
    /\ pc' = "exited"
    /\ exit_code' = 0
    /\ UNCHANGED <<inputs, config, extractors, processed_files, skipped_files, results,
                   py_files, idx, calls, runs, ret, prev, reads, parses, collector>>
    /\ UNCHANGED lib_vars

\* TaggedCode(...) for each of the given field values: the objects, or pydantic's
\* ValidationError at the first that does not pass.
NewTaggedCodes ==
    /\ mode = "schemas" /\ pc = "lib_start"
    /\ IF \A k \in 1..Len(given) : ValidTaggedCode(given[k])
       THEN made' = given /\ pc' = "lib_made"
       ELSE made' = made /\ pc' = "validation_error"
    /\ UNCHANGED <<inputs, config, run_vars, given, built, grouped, report, bare>>

\* ExtractionResult(config=config, results=[...], processed_files=2,
\* skipped_files=[...])
NewExtractionResult ==
    /\ mode = "schemas" /\ pc = "lib_made"
    /\ \E skipped \in GivenSkipped :
          built' = ExtractionResult([config |-> config, results |-> made,
                                    processed_files |-> 2, skipped_files |-> skipped])
    /\ pc' = "lib_built"
    /\ UNCHANGED <<inputs, config, run_vars, given, made, grouped, report, bare>>

\* result.group_by_file()
GroupByFileCall ==
    /\ mode = "schemas" /\ pc = "lib_built"
    /\ grouped' = GroupByFile(built)
    /\ pc' = "lib_grouped"
    /\ UNCHANGED <<inputs, config, run_vars, given, made, built, report, bare>>

\* OutputFormatter.print_results(result), save_to_file(result, path, "markdown")
\* and save_to_file(result, path, "plain").
WriteReport ==
    /\ mode = "schemas" /\ pc = "lib_built"
    /\ \/ report' = PrintResults(built)
       \/ report' = FormatMarkdown(built)
       \/ report' = FormatPlain(built)
    /\ pc' = "lib_reported"
    /\ UNCHANGED <<inputs, config, run_vars, given, made, built, grouped, bare>>

\* module.visit(collector) by a caller: no MetadataWrapper has resolved positions.
VisitWithoutWrapper ==
    /\ mode = "visitor" /\ pc = "lib_start"
    /\ LET module == ParseModule(files[in_path].lines)
           col == ModuleVisit(module.body,
                              NewCollector(config.tag, config.include_functions,
                                           config.include_classes))
       IN  bare' = [file |-> in_path, results |-> col.results, raised |-> col.raised]
    /\ pc' = "lib_visited"
    /\ UNCHANGED <<inputs, config, run_vars, given, made, built, grouped, report>>

Next ==
    \/ TyperArgument
    \/ ConstructConfig
    \/ NewTagExtractor
    \/ Extract
    \/ ProcessFileStep
    \/ ExtractReturn
    \/ CommandDone
    \/ MainExcept
    \/ NewTaggedCodes
    \/ NewExtractionResult
    \/ GroupByFileCall
    \/ WriteReport
    \/ VisitWithoutWrapper

Spec == Init /\ [][Next]_vars

\* ---------------------------------------------------------- the properties
RECURSIVE NodesOf(_)
\* Every node of a statement list, nested ones included.
NodesOf(ns) ==
    IF ns = <<>> THEN {}
    ELSE {Head(ns)} \cup NodesOf(Head(ns).body) \cup NodesOf(Tail(ns))

\* The result a returned extract() gave, and the file extract()'s loop is at.
Returned == pc \in {"returned", "exited"} /\ ret # NoResult
AtFile == pc = "running" /\ idx <= Len(py_files)
CurrentFile == files[py_files[idx]]

KindOf(node) == IF node.kind = "d" THEN "function" ELSE "class"
KindEnabled(node) ==
    IF node.kind = "d" THEN config.include_functions ELSE config.include_classes

\* The declarations of a parsed file that qualify as candidates.
Qualifying(body) ==
    {n \in NodesOf(body) :
        /\ n.kind \in DeclToks
        /\ KindEnabled(n)
        /\ Contains(ModuleCode(n), config.tag)}

\* C1: every match of the extractor's results and of a returned ExtractionResult
\* has a code that contains the configured tag as a substring.
C1_MatchContainsTag ==
    /\ \A i \in 1..Len(results) : Contains(results[i].code, config.tag)
    /\ ret # NoResult =>
          \A i \in 1..Len(ret.results) : Contains(ret.results[i].code, ret.config.tag)

\* C1 witness: a result with two matches, of a class and of the function in it.
C1_Witness ==
    /\ Returned
    /\ Len(ret.results) = 2
    /\ ret.results[1].node_type = "class"
    /\ ret.results[2].node_type = "function"

\* C2: a match of a kind is in the results only if the kind is enabled: with
\* include_classes off every match is a function, with include_functions off every
\* match is a class.
C2_OnlyEnabledKinds ==
    /\ \A i \in 1..Len(results) :
          /\ results[i].node_type = "function" => config.include_functions
          /\ results[i].node_type = "class" => config.include_classes
    /\ ret # NoResult =>
          \A i \in 1..Len(ret.results) :
              /\ ~ret.config.include_classes => ret.results[i].node_type = "function"
              /\ ~ret.config.include_functions => ret.results[i].node_type = "class"

\* C2 witness: a file whose class and function both contain the tag, classes off,
\* and the function is the one match.
C2_Witness ==
    /\ Returned
    /\ in_path = FileA
    /\ files[FileA] = Text(<<Line(0, "c"), Line(2, "d"), Line(4, "t")>>)
    /\ config.include_functions /\ ~config.include_classes
    /\ Len(ret.results) = 1
    /\ ret.results[1].node_type = "function"

\* C3: after a collector has visited a parsed file, its candidates are exactly the
\* declarations, nested ones included, of an enabled kind whose rendered text
\* contains the tag: one candidate each, and no other candidate.
C3_CollectorExact ==
    (collector # NoCollector /\ ~collector.raised) =>
        LET body == ParseModule(files[collector.file].lines).body
            want == Qualifying(body)
            got == collector.results
        IN  /\ Len(got) = Cardinality(want)
            /\ \A n \in want :
                  Cardinality({i \in 1..Len(got) :
                                  /\ got[i].line_number = n.line
                                  /\ got[i].node_type = KindOf(n)
                                  /\ got[i].code = ModuleCode(n)}) = 1

\* C3 witness: a tagged function beside an untagged class gave one candidate.
C3_Witness ==
    /\ collector # NoCollector
    /\ files[collector.file] =
           Text(<<Line(0, "d"), Line(2, "t"), Line(0, "c"), Line(2, "p")>>)
    /\ config.include_functions /\ config.include_classes
    /\ Len(collector.results) = 1

\* C4: a second extract() over the same files with the same configuration returns
\* the result the first one returned, on another object and on the same object.
C4_Idempotent ==
    (pc = "returned" /\ prev # NoResult) => ret = prev

\* The files that cannot be decoded, or that hold the tag and cannot be parsed.
Unreadable(content, tag) ==
    \/ ~content.decodable
    \/ /\ Contains(SourceText(content.lines), tag)
       /\ ~ParseModule(content.lines).ok

\* The per-file skip path: one more entry in skipped_files, nothing else of the
\* extractor changed, and the loop goes on to the next file.
SkipPath ==
    /\ pc' = "running"
    /\ idx' = idx + 1
    /\ Len(skipped_files') = Len(skipped_files) + 1
    /\ processed_files' = processed_files
    /\ results' = results

\* C5: a file that holds the tag and cannot be parsed, or cannot be decoded, is
\* handled by the skip path: extract() does not raise.
C5_ParseErrorSkipped ==
    [][(AtFile /\ Unreadable(CurrentFile, config.tag)) => SkipPath]_vars

\* The files that parse and hold a declaration of an enabled kind that the code
\* generator cannot write back.
Unrenderable(content, tag) ==
    /\ content.decodable
    /\ Contains(SourceText(content.lines), tag)
    /\ ParseModule(content.lines).ok
    /\ \E n \in NodesOf(ParseModule(content.lines).body) :
          n.kind \in DeclToks /\ KindEnabled(n) /\ ~Renderable(n)

\* C6: a file with a declaration that cannot be rendered in the collector is handled
\* by the skip path: extract() does not raise.
C6_RenderErrorSkipped ==
    [][(AtFile /\ Unrenderable(CurrentFile, config.tag)) => SkipPath]_vars

\* The inputs that are configuration errors: an empty tag, a path that does not
\* exist, a file that is no .py file.
ConfigurationError ==
    \/ in_tag = <<>>
    \/ ~Exists(in_path, files)
    \/ IsFile(in_path, files) /\ in_path[Len(in_path)].suffix # ".py"

\* C7: with a configuration error there is never an ExtractorConfig nor a
\* TagExtractor, extract() is never called and no file is read or parsed; a caller
\* of ExtractorConfig gets the error from its construction.
C7_ConfigErrorBeforeExtraction ==
    ConfigurationError =>
        /\ config = NoConfig
        /\ extractors = 0 /\ runs = 0 /\ reads = 0 /\ parses = 0
        /\ pc \in {"start", "checked", "config_error", "exited"}
        /\ (mode = "api" /\ pc # "start") => pc = "config_error"

\* C7 witness: ExtractorConfig refused an empty tag for a directory that exists.
C7_Witness ==
    /\ pc = "config_error"
    /\ in_tag = <<>>
    /\ in_path = Proj
    /\ extractors = 0 /\ reads = 0

\* C8: the process exits with a status other than 0 exactly when the inputs are a
\* configuration error.
C8_ExitStatus ==
    (mode = "cli" /\ pc = "exited") => (exit_code # 0 <=> ConfigurationError)

\* C9: processing a file whose text does not contain the tag adds one to
\* processed_files, parses nothing and changes neither results nor skipped_files.
C9_MarkerAbsentCounted ==
    [][(AtFile /\ CurrentFile.decodable
              /\ ~Contains(SourceText(CurrentFile.lines), config.tag)) =>
          /\ processed_files' = processed_files + 1
          /\ results' = results
          /\ skipped_files' = skipped_files
          /\ parses' = parses
          /\ pc' = "running"]_vars

\* C9 witness: a single file without the tag gave no match, one processed file and
\* no skipped file, and nothing was parsed.
C9_Witness ==
    /\ Returned
    /\ calls = 1 /\ extractors = 1
    /\ py_files = <<FileA>>
    /\ ~Contains(SourceText(files[FileA].lines), config.tag)
    /\ Len(files[FileA].lines) > 0
    /\ ret.results = <<>> /\ ret.processed_files = 1 /\ ret.skipped_files = <<>>
    /\ parses = 0

\* An extractor without the pre-filter: _process_file that parses every file read.
ProcessFileFullScan(self, file_path) ==
    LET content == files[file_path]
    IN  IF ~content.decodable THEN Outcome(self, TRUE, FALSE, NoCollector)
        ELSE ParseAndCollect(self, file_path, content.lines, files)

RECURSIVE FullScan(_, _)
\* extract() of that extractor from file k on: its result, or NoResult when it raises.
FullScan(self, k) ==
    IF k > Len(py_files) THEN ExtractionResult(self)
    ELSE LET o == ProcessFileFullScan(self, py_files[k])
         IN  IF o.raised THEN NoResult ELSE FullScan(o.self, k + 1)

\* C10: the result of the first extract() of an object is the result of the
\* extractor without the pre-filter, and a file whose text lacks the tag has no
\* declaration whose rendered text contains it.
C10_PrefilterTransparent ==
    /\ (pc = "returned" /\ calls = 1) =>
          ret = FullScan([config |-> config, processed_files |-> 0,
                          skipped_files |-> <<>>, results |-> <<>>], 1)
    /\ \A k \in 1..Len(py_files) :
          LET content == files[py_files[k]]
          IN  (/\ content.decodable
               /\ ParseModule(content.lines).ok
               /\ ~Contains(SourceText(content.lines), config.tag)) =>
                  \A n \in NodesOf(ParseModule(content.lines).body) :
                      (n.kind \in DeclToks /\ Renderable(n)) =>
                          ~Contains(ModuleCode(n), config.tag)

\* A tag that lies within one line of text.
SingleLine(tag) == \A k \in 1..Len(tag) : tag[k] # "n"

\* The candidates of a collector that stand for the node n.
CandidatesOf(n) ==
    {i \in 1..Len(collector.results) :
        /\ collector.results[i].name = <<n.kind, n.line>>
        /\ collector.results[i].node_type = KindOf(n)
        /\ Contains(collector.results[i].code, config.tag)}

\* Every declaration nested in a declaration, when the nested one's rendered text
\* holds the tag, has a candidate of its own, and so has the enclosing one.
NestedBothCollected ==
    LET body == ParseModule(files[collector.file].lines).body
    IN  \A outer \in NodesOf(body) :
            \A inner \in NodesOf(outer.body) :
                (/\ outer.kind \in DeclToks /\ inner.kind \in DeclToks
                 /\ Contains(ModuleCode(inner), config.tag))
                => \E i \in CandidatesOf(inner), j \in CandidatesOf(outer) : i # j

NodeAt(body, line) == CHOOSE n \in NodesOf(body) : n.line = line

\* Whether the declaration outer encloses the node n.
Encloses(outer, n) == n \in NodesOf(outer.body)

\* C12: a collector's candidates are in document order: a declaration that encloses
\* another comes before it, and of two declarations neither of which encloses the
\* other, the one that starts earlier in the source comes first.
C12_DocumentOrder ==
    collector # NoCollector =>
        LET body == ParseModule(files[collector.file].lines).body
            got == collector.results
            node(i) == NodeAt(body, got[i].name[2])
        IN  \A i, j \in 1..Len(got) :
                /\ Encloses(node(i), node(j)) => i < j
                /\ (/\ ~Encloses(node(i), node(j)) /\ ~Encloses(node(j), node(i))
                    /\ node(i).line < node(j).line) => i < j

\* C12 witness: a function and, after it, a class that both hold the word gave the
\* function's candidate first.
C12_Witness ==
    /\ collector # NoCollector
    /\ files[collector.file] =
           Text(<<Line(0, "d"), Line(2, "t"), Line(0, "c"), Line(2, "t")>>)
    /\ Len(collector.results) = 2
    /\ collector.results[1].name = <<"d", 1>>
    /\ collector.results[2].name = <<"c", 3>>

\* The .py files under the directory p.
Matching(p) ==
    {f \in DOMAIN files :
        Len(p) < Len(f) /\ SubSeq(f, 1, Len(p)) = p /\ f[Len(f)].suffix = ".py"}

\* Whether the sequence q is the discovery order of the run: the given path alone
\* when it is a file, else the .py files under it, each once, in ascending order.
IsDiscoveryOrder(q) ==
    IF in_path \in DOMAIN files THEN q = <<in_path>>
    ELSE /\ {q[k] : k \in 1..Len(q)} = Matching(in_path)
         /\ Len(q) = Cardinality(Matching(in_path))
         /\ \A i, j \in 1..Len(q) : i < j => PathLeq(q[i], q[j])

\* The matches one file gives: its collector's candidates in the collector's order.
FileMatches(f) ==
    LET o == ProcessFile([Self EXCEPT !.results = <<>>], f, files)
    IN  o.self.results

RECURSIVE ConcatMatches(_)
\* The matches of the files of q, file after file.
ConcatMatches(q) ==
    IF q = <<>> THEN <<>> ELSE FileMatches(Head(q)) \o ConcatMatches(Tail(q))

\* C13: extract() goes through the files in discovery order, one at a time, and
\* the matches of its result are the matches of each file, in the collector's
\* order, joined in that file order.
C13_DiscoveryOrderConcat ==
    /\ pc \in {"running", "raised"} => IsDiscoveryOrder(py_files)
    /\ (pc = "returned" /\ ret # NoResult) =>
           /\ IsDiscoveryOrder(py_files)
           /\ ret.results = ConcatMatches(py_files)

\* A directory was given and no .py file is under it.
NothingDiscovered == in_path \notin DOMAIN files /\ Matching(in_path) = {}

\* C14: when no file is discovered, extract() does not raise and returns a result
\* with no match, no processed file and no skipped file.
C14_NoFilesEmptyResult ==
    NothingDiscovered =>
        /\ pc # "raised"
        /\ (pc = "returned" /\ ret # NoResult) =>
               /\ ret.results = <<>>
               /\ ret.processed_files = 0
               /\ ret.skipped_files = <<>>

\* C14 witness: extract() returned on a directory that holds notes.txt alone.
C14_Witness ==
    /\ pc = "returned"
    /\ in_path = Proj /\ files = NoFiles
    /\ ret # NoResult
    /\ ret.results = <<>> /\ ret.processed_files = 0

\* The elements of a sequence.
Range(q) == {q[k] : k \in 1..Len(q)}

\* Every TaggedCode there is: those of the extractor, of the result extract()
\* returned, and those a caller of the schemas built and put into a result.
AllMatches ==
    Range(results) \cup Range(made)
    \cup (IF ret # NoResult THEN Range(ret.results) ELSE {})
    \cup (IF built # NoResult THEN Range(built.results) ELSE {})

\* The caller's TaggedCode(...) calls ended with a validation error, no object built.
ValidationFailed == pc \in {"lib_start", "validation_error"} /\ made = <<>>

\* C15: every TaggedCode has a line_number of at least 1: building one with a
\* smaller line number fails validation, and a collector that cannot resolve a
\* node's position appends the candidate all the same, with line_number 1.
C15_LineAtLeastOne ==
    /\ \A m \in AllMatches : m.line_number >= 1
    /\ (\E k \in 1..Len(given) : given[k].line_number < 1) => ValidationFailed
    /\ bare # NoCollector =>
           /\ ~bare.raised =>
                  Len(bare.results) =
                      Cardinality(Qualifying(ParseModule(files[bare.file].lines).body))
           /\ \A k \in 1..Len(bare.results) : bare.results[k].line_number = 1

\* C15 witness: TaggedCode(..., line_number=0, ...) ended with a validation error.
C15_Witness ==
    /\ pc = "validation_error"
    /\ Len(given) = 1
    /\ given[1].line_number = 0 /\ given[1].node_type = "function"

\* A collector without resolved positions appended a declaration that starts on
\* line 2, with line_number 1.
FallbackReached ==
    /\ bare # NoCollector /\ ~bare.raised
    /\ \E k \in 1..Len(bare.results) :
          bare.results[k].name[2] = 2 /\ bare.results[k].line_number = 1

\* C16: building a TaggedCode with a node_type other than "function" and "class"
\* fails validation, so every TaggedCode has one of the two.
C16_KindValid ==
    /\ \A m \in AllMatches : m.node_type \in {"function", "class"}
    /\ (\E k \in 1..Len(given) : given[k].node_type \notin {"function", "class"})
           => ValidationFailed

\* C16 witness: TaggedCode(..., node_type="invalid") ended with a validation error.
C16_Witness ==
    /\ pc = "validation_error"
    /\ Len(given) = 1
    /\ given[1].node_type = "invalid" /\ given[1].line_number = 1

RECURSIVE OfFile(_, _)
\* The matches of a sequence that carry the file path, in the sequence's order.
OfFile(items, file_path) ==
    IF items = <<>> THEN <<>>
    ELSE (IF Head(items).file_path = file_path THEN <<Head(items)>> ELSE <<>>)
         \o OfFile(Tail(items), file_path)

RECURSIVE SumOfSizes(_)
SumOfSizes(g) == IF g = <<>> THEN 0 ELSE Len(Head(g).items) + SumOfSizes(Tail(g))

\* Whether the groups g partition the matches by file path: one group for each
\* file path that occurs and no other, each holding the matches of its file in
\* their original order, the sizes adding up to the number of matches.
IsPartitionByFile(g, items) ==
    /\ \A i, j \in 1..Len(g) : g[i].key = g[j].key => i = j
    /\ {g[k].key : k \in 1..Len(g)} = {m.file_path : m \in Range(items)}
    /\ \A k \in 1..Len(g) :
          /\ g[k].items = OfFile(items, g[k].key)
          /\ g[k].items # <<>>
    /\ SumOfSizes(g) = Len(items)

\* C17: group_by_file() partitions the matches of a result by file path, for a
\* result a caller built and for a result extract() returned.
C17_GroupByFilePartition ==
    /\ pc = "lib_grouped" => IsPartitionByFile(grouped, built.results)
    /\ Returned => IsPartitionByFile(GroupByFile(ret), ret.results)

\* C17 witness: three matches, of sub/b.py, a.py and sub/b.py in this order, were
\* grouped into two groups.
C17_Witness ==
    /\ pc = "lib_grouped"
    /\ Len(built.results) = 3
    /\ built.results[1].file_path = RelB
    /\ built.results[2].file_path = RelA
    /\ built.results[3].file_path = RelB
    /\ Len(grouped) = 2
    /\ Len(grouped[1].items) = 2

\* The path a match of the file f is to carry: f relative to the base path (the
\* parent of the given path when that is a file, the given path when it is a
\* directory), and f itself when it is not under the base path.
ExpectedPath(f) ==
    LET base == IF in_path \in DOMAIN files
                THEN SubSeq(in_path, 1, Len(in_path) - 1) ELSE in_path
    IN  IF Len(base) <= Len(f) /\ \A k \in 1..Len(base) : f[k] = base[k]
        THEN [k \in 1..(Len(f) - Len(base)) |-> f[Len(base) + k]]
        ELSE f

\* C18: the matches that processing a file appends carry that file's path relative
\* to the base path.
C18_RelativePath ==
    [][AtFile =>
          \A k \in (Len(results) + 1)..Len(results') :
              results'[k].file_path = ExpectedPath(py_files[idx])]_vars

\* C18 witness: a run over the directory proj appended a match of proj/sub/b.py,
\* which carries sub/b.py.
C18_Witness ==
    /\ in_path = Proj
    /\ pc = "running" /\ idx = 3
    /\ py_files[2] = FileB
    /\ results # <<>>
    /\ results[Len(results)].file_path = RelB

\* The result a report was written from.
Reported == IF mode = "cli" THEN ret ELSE built

\* The headings and the items of the reports: the tree and the code panels of
\* print_results, the Markdown report and the plain text report.
FileKinds == {"tree_file", "code_file", "md_file", "plain_file"}
MatchKind(file_kind) ==
    CASE file_kind = "tree_file" -> "tree_match"
      [] file_kind = "code_file" -> "code_match"
      [] file_kind = "md_file" -> "md_match"
      [] file_kind = "plain_file" -> "plain_match"

\* The heading the item at position i of the report stands under.
HeadingOf(i, file_kind) ==
    CHOOSE h \in 1..i :
        /\ report[h].kind = file_kind
        /\ \A g \in (h + 1)..i : report[g].kind # file_kind

\* Whether the match a stands before the match b in the result.
Before(a, b) ==
    \E i, j \in 1..Len(Reported.results) :
        i < j /\ Reported.results[i] = a /\ Reported.results[j] = b

\* C19: a report lists the files in ascending order of their paths, each once, and
\* under each file its matches in ascending order of line_number, matches of
\* equal line_number in the order the result has them, whatever that order is.
C19_ReportOrder ==
    \A fk \in FileKinds :
        \A i, j \in 1..Len(report) :
            /\ (i < j /\ report[i].kind = fk /\ report[j].kind = fk) =>
                   PathLeq(report[i].val, report[j].val) /\ report[i].val # report[j].val
            /\ (/\ i < j
                /\ report[i].kind = MatchKind(fk) /\ report[j].kind = MatchKind(fk)
                /\ HeadingOf(i, fk) = HeadingOf(j, fk)) =>
                   /\ report[i].val.file_path = report[HeadingOf(i, fk)].val
                   /\ report[j].val.file_path = report[HeadingOf(j, fk)].val
                   /\ report[i].val.line_number <= report[j].val.line_number
                   /\ report[i].val.line_number = report[j].val.line_number =>
                          Before(report[i].val, report[j].val)

\* C19 witness: a Markdown report of a result that holds a function of sub/b.py on
\* line 2, then a function of a.py, then a class of sub/b.py on line 1; the report
\* has a.py first and the function on line 2 last.
C19_Witness ==
    /\ pc = "lib_reported"
    /\ Len(built.results) = 3
    /\ built.results[1] = Fields(RelB, "d", 2, "function")
    /\ built.results[2] = Fields(RelA, "d", 1, "function")
    /\ built.results[3] = Fields(RelB, "c", 1, "class")
    /\ report[1].kind = "md_tag"
    /\ report[3] = ReportLine("md_file", RelA)
    /\ report[Len(report)] = ReportLine("md_match", built.results[1])

\* Whether the sequence q starts with the sequence p.
IsPrefix(p, q) == Len(p) <= Len(q) /\ SubSeq(q, 1, Len(p)) = p

\* C20: the matches of an extractor are only ever appended to: no step on the same
\* object changes, removes or reorders a match that is there.  A turn of
\* extract()'s loop appends the matches of its file and nothing else, counts the
\* file or extends the skipped files, and leaves the configuration, the files, the
\* discovered files and the results returned before as they are.
C20_AppendOnly ==
    [][/\ extractors' = extractors => IsPrefix(results, results')
       /\ AtFile =>
              /\ pc' = "running" => results' = results \o FileMatches(py_files[idx])
              /\ pc' = "raised" => results' = results
              /\ processed_files' \in {processed_files, processed_files + 1}
              /\ IsPrefix(skipped_files, skipped_files')
              /\ UNCHANGED <<inputs, config, extractors, py_files, ret, prev>>]_vars

\* C20 witness: the second file of a directory was processed, and the match of the
\* first file stands where it stood, before the match of the second.
C20_Witness ==
    /\ in_path = Proj
    /\ pc = "running" /\ idx = 3
    /\ Len(results) = 2
    /\ results[1].file_path = RelA
    /\ results[2].file_path = RelB

\* A Markdown report has been written.
MarkdownWritten == Len(report) > 0 /\ report[1].kind = "md_tag"

\* The report shows the number of skipped files and each of their diagnostics.
SkippedShown ==
    /\ \E i \in 1..Len(report) :
          report[i] = ReportLine("md_skipped", Len(Reported.skipped_files))
    /\ \A k \in 1..Len(Reported.skipped_files) :
          \E i \in 1..Len(report) :
              report[i] = ReportLine("md_skipped_file", Reported.skipped_files[k])

\* C21: the Markdown report of a result with skipped files shows their number and
\* the diagnostic of each, with matches in the result and without.
C21_SkippedFlagged ==
    (MarkdownWritten /\ Reported.skipped_files # <<>>) => SkippedShown

\* The same for the results without a match.
SkippedFlaggedNoMatch ==
    (MarkdownWritten /\ Reported.skipped_files # <<>> /\ Reported.results = <<>>)
    => SkippedShown

\* The accounting of the files: when extract() has returned, the processed and the
\* skipped files of its result are as many as the discovered files; while its
\* loop runs, those of the extractor are as many as the files handled so far.
Accounted ==
    /\ (pc = "returned" /\ ret # NoResult) =>
           ret.processed_files + Len(ret.skipped_files) = Len(py_files)
    /\ pc = "running" => processed_files + Len(skipped_files) = idx - 1

\* C22: every discovered file is counted exactly once, as processed or as skipped,
\* at every return of extract() and at every point of its loop.
C22_FileAccounting == Accounted

\* The same for the first extract() of an object.
FirstCallAccounted == calls = 1 => Accounted

\* Whether the matches of each file stand together in the sequence q.
Contiguous(q) ==
    \A i, j \in 1..Len(q) :
        (i < j /\ q[i].file_path = q[j].file_path) =>
            \A k \in i..j : q[k].file_path = q[i].file_path

\* A turn of extract()'s loop appends the candidates of its own file, found by a
\* collector of its own, and each carries the path of that file.
OwnMatchesAppended ==
    AtFile =>
        /\ pc' = "running" =>
               SubSeq(results', Len(results) + 1, Len(results')) =
                   FileMatches(py_files[idx])
        /\ \A k \in (Len(results) + 1)..Len(results') :
               results'[k].file_path = ExpectedPath(py_files[idx])

\* C23: every match carries the path of the file whose turn of the loop appended
\* it, no turn appends the candidates of an earlier file again, and the matches of
\* one file stand together in the sequence of matches.
C23_AttributedToFile ==
    [][OwnMatchesAppended /\ Contiguous(results')]_vars

\* The same, the matches standing together during the first extract() of an object.
FirstCallAttributed ==
    [][OwnMatchesAppended /\ (calls' = 1 => Contiguous(results'))]_vars

\* Neither functions nor classes are to be collected.
NoKindEnabled == ~in_functions /\ ~in_classes

\* The file extract()'s loop is at can be decoded and parsed.
ReadableParsable == CurrentFile.decodable /\ ParseModule(CurrentFile.lines).ok

\* C24: with include_functions and include_classes both false there is never a
\* match and never a skipped file, and a turn of extract()'s loop on a file that
\* can be decoded and parsed counts the file as processed and goes on.
C24_NoKindNoMatch ==
    [][NoKindEnabled =>
          /\ results' = <<>>
          /\ skipped_files' = <<>>
          /\ ret' # NoResult => ret'.results = <<>>
          /\ (AtFile /\ ReadableParsable) =>
                 /\ processed_files' = processed_files + 1
                 /\ pc' = "running"]_vars

\* C24 witness: with both kinds off, extract() returned for a file holding a tagged
\* function: no match, one processed file, no skipped file.
C24_Witness ==
    /\ NoKindEnabled
    /\ pc = "returned" /\ calls = 1
    /\ in_path = FileA /\ files[FileA] = TaggedFunction
    /\ in_tag = <<"t">>
    /\ ret.results = <<>>
    /\ ret.processed_files = 1
    /\ ret.skipped_files = <<>>
====
